---- MODULE Spec2Model ----
(***************************************************************************)
(* Model of src/opencode.ts: the context-usage treemap of an opencode      *)
(* session.  Strings are TLA+ strings (Len, \o and SubSeq act on them the  *)
(* way .length, + and .slice act on JavaScript strings).                   *)
(***************************************************************************)
EXTENDS Integers, Sequences, FiniteSets, TLC

VARIABLES
    pc,            \* position of the running main(): see the actions
    sessionId,     \* main's argument; "" when none was given
    servers,       \* one entry per createOpencode() call: "open" | "closed"
    renderers,     \* one entry per createCliRenderer() call
    exitCode,      \* <<>> while the process runs, <<c>> after process.exit(c)
    calls,         \* how often each data-source operation was called
    outcome,       \* what each data-source operation answered
    messages,      \* messagesResult.data
    projectPath,   \* sessionResult?.data?.directory ?? ""
    partsMap,      \* Map<string, Part>
    rootNode,      \* the tree handed to Treemap; <<>> before it is built
    selectedPart,  \* App's useState<Part | null>: <<>> is null
    lastEvent,     \* the last input the event loop delivered
    processCwd,    \* process.cwd(), which path.relative resolves against
    fnIn,          \* argument of the pure function under check
    fnOut          \* its result; <<>> before it is applied

vars == <<pc, sessionId, servers, renderers, exitCode, calls, outcome, messages,
          projectPath, partsMap, rootNode, selectedPart, lastEvent, processCwd,
          fnIn, fnOut>>

-----------------------------------------------------------------------------
(* JavaScript string primitives *)

charAt(s, i) == SubSeq(s, i, i)

startsWith(s, p) == Len(s) >= Len(p) /\ SubSeq(s, 1, Len(p)) = p

endsWith(s, p) == Len(s) >= Len(p) /\ SubSeq(s, Len(s) - Len(p) + 1, Len(s)) = p

RECURSIVE split(_, _)
\* s.split("/") for a one-character separator: the segments, empty ones kept
split(s, acc) ==
    IF s = "" THEN <<acc>>
    ELSE IF charAt(s, 1) = "/" THEN <<acc>> \o split(SubSeq(s, 2, Len(s)), "")
    ELSE split(SubSeq(s, 2, Len(s)), acc \o charAt(s, 1))

RECURSIVE join(_)
\* segs.join("/")
join(segs) ==
    IF segs = <<>> THEN ""
    ELSE IF Len(segs) = 1 THEN segs[1]
    ELSE segs[1] \o "/" \o join(Tail(segs))

-----------------------------------------------------------------------------
(* node:path (posix), as getPartLabel uses it *)

RECURSIVE normalizeSegments(_, _)
\* normalizeString of an absolute path: "" and "." segments are dropped and
\* ".." removes the segment before it (nothing at the root)
normalizeSegments(segs, acc) ==
    IF segs = <<>> THEN acc
    ELSE IF Head(segs) = "" \/ Head(segs) = "." THEN normalizeSegments(Tail(segs), acc)
    ELSE IF Head(segs) = ".."
         THEN normalizeSegments(Tail(segs),
                                IF acc = <<>> THEN acc ELSE SubSeq(acc, 1, Len(acc) - 1))
    ELSE normalizeSegments(Tail(segs), Append(acc, Head(segs)))

\* path.resolve(p) as segments: p itself when absolute, else p below cwd
\* (the empty path resolves to cwd)
resolveSegments(cwd, p) ==
    IF startsWith(p, "/") THEN normalizeSegments(split(p, ""), <<>>)
    ELSE normalizeSegments(split(cwd \o "/" \o p, ""), <<>>)

RECURSIVE commonPrefixLen(_, _)
commonPrefixLen(a, b) ==
    IF a = <<>> \/ b = <<>> THEN 0
    ELSE IF Head(a) # Head(b) THEN 0
    ELSE 1 + commonPrefixLen(Tail(a), Tail(b))

RECURSIVE parentSegments(_)
parentSegments(n) == IF n = 0 THEN <<>> ELSE <<"..">> \o parentSegments(n - 1)

\* path.relative(from, to): one ".." for every segment of from below the
\* common directory, then the rest of to
pathRelative(cwd, from, to) ==
    IF from = to THEN ""
    ELSE LET f == resolveSegments(cwd, from)
             t == resolveSegments(cwd, to)
             c == commonPrefixLen(f, t)
         IN  join(parentSegments(Len(f) - c) \o SubSeq(t, c + 1, Len(t)))

-----------------------------------------------------------------------------
(* JSON.stringify and Number.prototype.toFixed *)

RECURSIVE quoteChars(_)
\* the characters of a JSON string literal: a quote and a backslash are
\* written with a backslash before them
quoteChars(s) ==
    IF s = "" THEN ""
    ELSE LET c == charAt(s, 1)
         IN  (IF c = "\"" \/ c = "\\" THEN "\\" \o c ELSE c)
                 \o quoteChars(SubSeq(s, 2, Len(s)))

quote(s) == "\"" \o quoteChars(s) \o "\""

RECURSIVE stringifyMembers(_)
stringifyMembers(obj) ==
    IF obj = <<>> THEN ""
    ELSE quote(obj[1][1]) \o ":" \o quote(obj[1][2])
            \o (IF Len(obj) > 1 THEN "," ELSE "") \o stringifyMembers(Tail(obj))

\* JSON.stringify(obj) of an object given as its <<key, string value>> members
\* in insertion order
stringify(obj) == "{" \o stringifyMembers(obj) \o "}"

\* "key" in obj, and obj[key]
hasKey(obj, key) == \E i \in 1..Len(obj) : obj[i][1] = key

getKey(obj, key) == obj[CHOOSE i \in 1..Len(obj) : obj[i][1] = key][2]

RECURSIVE bitLength(_)
bitLength(n) == IF n = 0 THEN 0 ELSE 1 + bitLength(n \div 2)

RECURSIVE roundingOfQuotient(_, _, _, _)
\* How the double nearest to a quotient with fraction r/den lies to the
\* quotient itself once `bits` more binary digits are kept: "exact", "above"
\* or "below" (IEEE 754 round-to-nearest, ties to even; `odd` is the last
\* digit kept).
roundingOfQuotient(r, den, bits, odd) ==
    IF r = 0 THEN "exact"
    ELSE IF bits = 0
         THEN IF 2 * r > den \/ (2 * r = den /\ odd) THEN "above" ELSE "below"
    ELSE roundingOfQuotient((2 * r) % den, den, bits - 1, 2 * r >= den)

\* The double num / den (num, den positive integers), compared with the exact
\* quotient: a double keeps 53 binary digits
doubleOfQuotient(num, den) ==
    roundingOfQuotient(num % den, den, 53 - bitLength(num \div den),
                       (num \div den) % 2 = 1)

\* The tenths n of (num / den).toFixed(1): "Let n be an integer for which
\* n / 10 - x is as close to zero as possible.  If there are two such n, pick
\* the larger n", x being the double num / den.  x differs from the exact
\* quotient by less than 1e-12, so only an exact decimal tie is decided by
\* the double's rounding.
tenths(num, den) ==
    LET q == (10 * num) \div den
        r == (10 * num) % den
    IN  IF 2 * r < den THEN q
        ELSE IF 2 * r > den THEN q + 1
        ELSE IF doubleOfQuotient(num, den) = "below" THEN q ELSE q + 1

toFixed1(num, den) ==
    ToString(tenths(num, den) \div 10) \o "." \o ToString(tenths(num, den) % 10)

-----------------------------------------------------------------------------
(* Parts (the Part union of @opencode-ai/sdk) the data source may return.   *)
(* An optional field is a field the record may lack.                        *)

Texts == {"", "hi", "hello world"}

FilePaths ==
    {"/proj/src/a.ts", "/proj/a.ts", "/other/b.ts", "/proj/..cache/a.ts",
     "/proj/src/../b.ts", "/projects/c.ts", "/proj"}

ToolInputs ==
    {<<>>, << <<"command", "echo \"hi\"">> >>, << <<"pattern", "*.ts">>, <<"path", "src">> >>}
        \cup {<< <<"filePath", f>> >> : f \in FilePaths}

ToolNames == {"read", "write", "bash", "mytool"}

ToolTimes == {[start |-> 1, end |-> 2], [start |-> 1, end |-> 2, compacted |-> 3]}

ToolStates ==
    {[status |-> "pending", input |-> i] : i \in ToolInputs}
        \cup {[status |-> "running", input |-> i, time |-> [start |-> 1]] : i \in ToolInputs}
        \cup {[status |-> "completed", input |-> i, output |-> o, time |-> t] :
                i \in ToolInputs, o \in {"", "total 12"}, t \in ToolTimes}
        \cup {[status |-> "error", input |-> i, error |-> "ENOENT",
               time |-> [start |-> 1, end |-> 2]] : i \in ToolInputs}

ToolParts == {[type |-> "tool", tool |-> n, state |-> st] : n \in ToolNames, st \in ToolStates}

FileSources ==
    {[text |-> [value |-> v, start |-> 0, end |-> Len(v)], type |-> "file", path |-> f] :
        v \in {"", "const a = 1"}, f \in FilePaths}

FileUrls == {"file:///proj/src/a.ts", "https://example.com/b.png"}

FileParts ==
    {[type |-> "file", mime |-> "text/plain", url |-> u] : u \in FileUrls}
        \cup {[type |-> "file", mime |-> "text/plain", url |-> u, filename |-> n] :
                u \in FileUrls, n \in {"", "a.ts", "/proj/src/a.ts"}}
        \cup {[type |-> "file", mime |-> "text/plain", url |-> u, filename |-> "a.ts",
               source |-> src] : u \in FileUrls, src \in FileSources}

SubtaskParts ==
    {[type |-> "subtask", prompt |-> pr, description |-> d, agent |-> "general"] :
        pr \in Texts, d \in {"", "look it up"}}

ControlTypes ==
    {"step-start", "step-finish", "snapshot", "patch", "agent", "retry", "compaction"}

\* the fields every part carries; the control parts are modelled with these only
ControlParts ==
    {[type |-> t, id |-> "prt_1", sessionID |-> "ses_1", messageID |-> m] :
        t \in ControlTypes, m \in {"msg_1", "msg_\"2\""}}

\* a part of a type this version of the tool does not know
UnknownParts ==
    {[type |-> "future-kind", id |-> "prt_1", sessionID |-> "ses_1", messageID |-> "msg_1"]}

TextParts == {[type |-> t, text |-> x] : t \in {"text", "reasoning"}, x \in Texts}

Parts ==
    TextParts \cup ToolParts \cup FileParts \cup SubtaskParts \cup ControlParts
        \cup UnknownParts

\* JSON.stringify(part) of a part that carries the common fields only
stringifyPart(part) ==
    stringify(<< <<"id", part.id>>, <<"sessionID", part.sessionID>>,
                 <<"messageID", part.messageID>>, <<"type", part.type>> >>)

\* a number as a condition: 0 (and a missing field) is false
truthy(rec, fld) == fld \in DOMAIN rec /\ rec[fld] # 0

-----------------------------------------------------------------------------
(* The size estimator, the label and color classifiers, the formatter *)

\* toolSize with the compaction check left out
toolSizeCompactionIgnored(state) ==
    IF state.status = "completed"
    THEN Len(stringify(state.input)) + Len(state.output)
    ELSE IF state.status = "running" \/ state.status = "pending"
         THEN Len(stringify(state.input))
    ELSE IF state.status = "error"
         THEN Len(stringify(state.input)) + Len(state.error)
    ELSE 0

toolSize(state) ==
    IF state.status = "completed"
    THEN LET inputSize == Len(stringify(state.input))
             outputSize == IF truthy(state.time, "compacted") THEN 0 ELSE Len(state.output)
         IN  inputSize + outputSize
    ELSE IF state.status = "running" \/ state.status = "pending"
         THEN Len(stringify(state.input))
    ELSE IF state.status = "error"
         THEN Len(stringify(state.input)) + Len(state.error)
    ELSE 0

fileSize(part) ==
    IF "source" \in DOMAIN part /\ "text" \in DOMAIN part.source
    THEN Len(part.source.text.value)
    ELSE Len(part.url)

\* getPartSize with a default branch that charges the serialization
getPartSizeDefaultCharged(part) ==
    CASE part.type = "text" -> Len(part.text)
      [] part.type = "reasoning" -> Len(part.text)
      [] part.type = "tool" -> toolSize(part.state)
      [] part.type = "file" -> fileSize(part)
      [] part.type = "subtask" -> Len(part.prompt) + Len(part.description)
      [] part.type \in ControlTypes -> 0
      [] OTHER -> Len(stringifyPart(part))

getPartSize(part) ==
    CASE part.type = "text" -> Len(part.text)
      [] part.type = "reasoning" -> Len(part.text)
      [] part.type = "tool" -> toolSize(part.state)
      [] part.type = "file" -> fileSize(part)
      [] part.type = "subtask" -> Len(part.prompt) + Len(part.description)
      [] part.type \in ControlTypes -> 0
      [] OTHER -> 0

\* getPartSize of the file's second iteration: a control part is charged its
\* whole serialization
getPartSize_2(part) ==
    CASE part.type = "text" -> Len(part.text)
      [] part.type = "reasoning" -> Len(part.text)
      [] part.type = "tool" -> toolSize(part.state)
      [] part.type = "file" -> fileSize(part)
      [] part.type = "subtask" -> Len(part.prompt) + Len(part.description)
      [] part.type \in ControlTypes -> Len(stringifyPart(part))
      [] OTHER -> 0

relativePath(cwd, projectRoot, filePath) ==
    LET rel == pathRelative(cwd, projectRoot, filePath)
    IN  IF startsWith(rel, "..") THEN filePath ELSE rel

\* cwd is process.cwd(), which path.relative reads
getPartLabel(part, projectRoot, cwd) ==
    CASE part.type = "text" -> "text"
      [] part.type = "reasoning" -> "reasoning"
      [] part.type = "tool" ->
            IF (part.tool = "read" \/ part.tool = "write")
                  /\ hasKey(part.state.input, "filePath")
            THEN "tool:" \o part.tool \o ":"
                    \o relativePath(cwd, projectRoot, getKey(part.state.input, "filePath"))
            ELSE "tool:" \o part.tool
      [] part.type = "file" ->
            LET filePath ==
                    IF "source" \in DOMAIN part /\ "path" \in DOMAIN part.source
                    THEN part.source.path
                    ELSE IF "filename" \in DOMAIN part /\ part.filename # ""
                         THEN part.filename
                    ELSE part.url
            IN  "file:" \o relativePath(cwd, projectRoot, filePath)
      [] part.type = "subtask" -> "subtask:" \o part.agent
      [] OTHER -> part.type

\* the keys of colorMap
colorMapKeys ==
    {"user", "assistant", "text", "reasoning", "file", "tool:read", "tool:write",
     "tool:edit", "tool:bash", "tool:glob", "tool:grep", "tool:list", "tool:task",
     "tool:todowrite", "tool:todoread", "tool:webfetch", "tool:googlesearch", "tool",
     "subtask", "step-start", "step-finish", "snapshot", "patch", "agent", "retry",
     "compaction"}

getPartColorType(part) ==
    IF part.type = "tool"
    THEN IF ("tool:" \o part.tool) \in colorMapKeys THEN "tool:" \o part.tool ELSE "tool"
    ELSE part.type

\* formatCharSize with its first threshold one too high
formatCharSizeThresholdOff(chars) ==
    IF chars <= 1000 THEN ToString(chars) \o " chars"
    ELSE IF chars \div 1000 < 1000 THEN toFixed1(chars, 1000) \o "K chars"
    ELSE toFixed1(chars, 1000000) \o "M chars"

\* k = chars / 1000 is below 1000 exactly when chars is below 1,000,000, and
\* m = k / 1000 is the double chars / 1,000,000 wherever toFixed(1) has a tie
\* (k is then a whole number)
formatCharSize(chars) ==
    IF chars < 1000 THEN ToString(chars) \o " chars"
    ELSE IF chars \div 1000 < 1000 THEN toFixed1(chars, 1000) \o "K chars"
    ELSE toFixed1(chars, 1000000) \o "M chars"

-----------------------------------------------------------------------------
(* main: the tree and the parts map *)

\* partKey without the message's index
partKeyOfPartOnly(msgIndex, partIndex) == ToString(partIndex)

partKey(msgIndex, partIndex) == ToString(msgIndex) \o "-" \o ToString(partIndex)

\* Map.prototype.set
mapSet(map, key, value) ==
    [k \in DOMAIN map \cup {key} |-> IF k = key THEN value ELSE map[k]]

\* partNode with the label measured in place of the part
partNodeSizedByLabel(part, msgIndex, partIndex, projectRoot, cwd) ==
    [name |-> getPartLabel(part, projectRoot, cwd),
     value |-> Len(getPartLabel(part, projectRoot, cwd)),
     layer |-> 1,
     partKey |-> partKey(msgIndex, partIndex),
     colorType |-> getPartColorType(part)]

\* the node of one part; msgIndex and partIndex count from 0
partNode(part, msgIndex, partIndex, projectRoot, cwd) ==
    [name |-> getPartLabel(part, projectRoot, cwd),
     value |-> getPartSize(part),
     layer |-> 1,
     partKey |-> partKey(msgIndex, partIndex),
     colorType |-> getPartColorType(part)]

\* messageName with the marker on every message but the last
messageNameMarkerInverted(role, msgIndex, isLast) ==
    role \o ":" \o ToString(msgIndex) \o (IF isLast THEN "" ELSE " (last)")

messageName(role, msgIndex, isLast) ==
    role \o ":" \o ToString(msgIndex) \o (IF isLast THEN " (last)" ELSE "")

RECURSIVE totalOfSizes(_)
totalOfSizes(parts) ==
    IF parts = <<>> THEN 0 ELSE getPartSize(Head(parts)) + totalOfSizes(Tail(parts))

\* messageNode carrying the total of its parts' sizes as its own value
messageNodeSummed(msg, msgIndex, count, projectRoot, cwd) ==
    [name |-> messageName(msg.info.role, msgIndex, msgIndex = count - 1),
     value |-> totalOfSizes(msg.parts),
     colorType |-> msg.info.role,
     layer |-> 0,
     children |-> [j \in 1..Len(msg.parts) |->
                      partNode(msg.parts[j], msgIndex, j - 1, projectRoot, cwd)]]

messageNode(msg, msgIndex, count, projectRoot, cwd) ==
    [name |-> messageName(msg.info.role, msgIndex, msgIndex = count - 1),
     value |-> 0,
     colorType |-> msg.info.role,
     layer |-> 0,
     children |-> [j \in 1..Len(msg.parts) |->
                      partNode(msg.parts[j], msgIndex, j - 1, projectRoot, cwd)]]

messageNodes(msgs, projectRoot, cwd) ==
    [i \in 1..Len(msgs) |-> messageNode(msgs[i], i - 1, Len(msgs), projectRoot, cwd)]

buildRootNode(msgs, projectRoot, cwd) ==
    [name |-> "session", value |-> 0, children |-> messageNodes(msgs, projectRoot, cwd)]

RECURSIVE setParts(_, _, _, _)
\* the partsMap.set calls of the two nested maps, in their order, from part
\* partIndex of message msgIndex (both from 0) on
setParts(map, msgs, msgIndex, partIndex) ==
    IF msgIndex >= Len(msgs) THEN map
    ELSE IF partIndex >= Len(msgs[msgIndex + 1].parts)
         THEN setParts(map, msgs, msgIndex + 1, 0)
    ELSE setParts(mapSet(map, partKey(msgIndex, partIndex),
                         msgs[msgIndex + 1].parts[partIndex + 1]),
                  msgs, msgIndex, partIndex + 1)

buildPartsMap(msgs) == setParts(<<>>, msgs, 0, 0)

-----------------------------------------------------------------------------
(* What the data source may answer *)

MaxMessages == 2

readA == [type |-> "tool", tool |-> "read",
          state |-> [status |-> "completed", input |-> << <<"filePath", "/proj/src/a.ts">> >>,
                     output |-> "total 12", time |-> [start |-> 1, end |-> 2]]]

bashCompacted ==
    [type |-> "tool", tool |-> "bash",
     state |-> [status |-> "completed", input |-> << <<"command", "echo \"hi\"">> >>,
                output |-> "total 12", time |-> [start |-> 1, end |-> 2, compacted |-> 3]]]

stepStart == [type |-> "step-start", id |-> "prt_1", sessionID |-> "ses_1",
              messageID |-> "msg_1"]

textHi == [type |-> "text", text |-> "hi"]

textHello == [type |-> "text", text |-> "hello world"]

fileOutside ==
    [type |-> "file", mime |-> "text/plain", url |-> "file:///proj/src/a.ts",
     filename |-> "/other/b.ts"]

\* the messages the data source may return: without parts; with one part;
\* with two unlike parts of one label; with one part twice; with a tool call
\* between a control part and a reasoning part; with a compacted tool call
\* and a file
Messages ==
    {[info |-> [role |-> "user"], parts |-> <<>>],
     [info |-> [role |-> "assistant"], parts |-> <<>>],
     [info |-> [role |-> "user"], parts |-> <<textHello>>],
     [info |-> [role |-> "user"], parts |-> <<textHi, textHello>>],
     [info |-> [role |-> "assistant"], parts |-> <<textHi, textHi>>],
     [info |-> [role |-> "assistant"],
      parts |-> <<stepStart, readA, [type |-> "reasoning", text |-> "hi"]>>],
     [info |-> [role |-> "user"], parts |-> <<bashCompacted, fileOutside>>]}

RECURSIVE SeqsUpTo(_, _)
SeqsUpTo(S, n) ==
    IF n = 0 THEN {<<>>}
    ELSE LET shorter == SeqsUpTo(S, n - 1)
         IN  shorter \cup {Append(q, x) : q \in shorter, x \in S}

MessageLists == SeqsUpTo(Messages, MaxMessages)

SessionIds == {"ses_1", "ses_2"}

Directories == {"/proj"}

Cwds == {"/proj", "/home/u"}

-----------------------------------------------------------------------------
(* The program: main(sessionId) and the handlers of its two views *)

NoCalls == [createOpencode |-> 0, list |-> 0, messages |-> 0, get |-> 0]

NoOutcome == [list |-> "", messages |-> "", get |-> ""]

Init ==
    /\ pc = "main"
    /\ sessionId \in {"", "ses_1"}
    /\ processCwd \in Cwds
    /\ servers = <<>>
    /\ renderers = <<>>
    /\ exitCode = <<>>
    /\ calls = NoCalls
    /\ outcome = NoOutcome
    /\ messages = <<>>
    /\ projectPath = ""
    /\ partsMap = <<>>
    /\ rootNode = <<>>
    /\ selectedPart = <<>>
    /\ lastEvent = [kind |-> "none"]
    /\ fnIn = <<>>
    /\ fnOut = <<>>

\* server.close() on the server of the running main
closeServer(svs) == [svs EXCEPT ![Len(svs)] = "closed"]

\* renderer.destroy() on the renderer of the running main
destroyRenderer(rds) == [rds EXCEPT ![Len(rds)].alive = FALSE]

createRenderer(rds, kind) == Append(rds, [kind |-> kind, alive |-> TRUE])

\* const { client, server } = await createOpencode({port: 0})
CreateOpencode ==
    /\ pc = "main"
    /\ servers' = Append(servers, "open")
    /\ calls' = [calls EXCEPT !.createOpencode = @ + 1]
    /\ pc' = IF sessionId = "" THEN "list" ELSE "messages"
    /\ UNCHANGED <<sessionId, renderers, exitCode, outcome, messages, projectPath,
                   partsMap, rootNode, selectedPart, lastEvent, processCwd, fnIn, fnOut>>

\* await client.session.list(), then exit 1 or the session picker
ListSessions ==
    /\ pc = "list"
    /\ \E result \in {"nodata", "empty", "sessions"} :
          /\ outcome' = [outcome EXCEPT !.list = result]
          /\ IF result = "sessions"
             THEN /\ renderers' = createRenderer(renderers, "picker")
                  /\ pc' = "picker"
                  /\ UNCHANGED <<servers, exitCode>>
             ELSE /\ servers' = closeServer(servers)
                  /\ exitCode' = <<1>>
                  /\ pc' = "exited"
                  /\ UNCHANGED renderers
    /\ calls' = [calls EXCEPT !.list = @ + 1]
    /\ UNCHANGED <<sessionId, messages, projectPath, partsMap, rootNode, selectedPart,
                   lastEvent, processCwd, fnIn, fnOut>>

\* SessionSelector's useKeyboard: escape.  renderer.destroy() runs onDestroy,
\* which closes the server, before server.close() and process.exit(0)
PickerEscape ==
    /\ pc = "picker"
    /\ renderers' = destroyRenderer(renderers)
    /\ servers' = closeServer(closeServer(servers))
    /\ exitCode' = <<0>>
    /\ pc' = "exited"
    /\ lastEvent' = [kind |-> "escape", view |-> "picker"]
    /\ UNCHANGED <<sessionId, calls, outcome, messages, projectPath, partsMap, rootNode,
                   selectedPart, processCwd, fnIn, fnOut>>

\* PickerSelect with a renderer whose onDestroy does not close the server
PickerSelectServerLeftOpen ==
    /\ pc = "picker"
    /\ \E selectedId \in SessionIds :
          /\ sessionId' = selectedId
          /\ lastEvent' = [kind |-> "select", id |-> selectedId]
    /\ renderers' = destroyRenderer(renderers)
    /\ pc' = "main"
    /\ UNCHANGED <<servers, exitCode, calls, outcome, messages, projectPath, partsMap,
                   rootNode, selectedPart, processCwd, fnIn, fnOut>>

\* SessionSelector's handleSelect: renderer.destroy(), whose onDestroy closes
\* the server, then main(selectedId)
PickerSelect ==
    /\ pc = "picker"
    /\ \E selectedId \in SessionIds :
          /\ sessionId' = selectedId
          /\ lastEvent' = [kind |-> "select", id |-> selectedId]
    /\ renderers' = destroyRenderer(renderers)
    /\ servers' = closeServer(servers)
    /\ pc' = "main"
    /\ UNCHANGED <<exitCode, calls, outcome, messages, projectPath, partsMap, rootNode,
                   selectedPart, processCwd, fnIn, fnOut>>

\* exitOnCtrlC: the renderer destroys itself and runs onDestroy; the code
\* calls no process.exit
CtrlC ==
    /\ pc \in {"picker", "view"}
    /\ renderers' = destroyRenderer(renderers)
    /\ servers' = closeServer(servers)
    /\ pc' = "destroyed"
    /\ lastEvent' = [kind |-> "ctrlC", view |-> pc]
    /\ UNCHANGED <<sessionId, exitCode, calls, outcome, messages, projectPath, partsMap,
                   rootNode, selectedPart, processCwd, fnIn, fnOut>>

\* FetchMessages leaving with code 0 when there is no data
FetchMessagesExitZero ==
    /\ pc = "messages"
    /\ calls' = [calls EXCEPT !.messages = @ + 1]
    /\ \/ /\ outcome' = [outcome EXCEPT !.messages = "nodata"]
          /\ exitCode' = <<0>>
          /\ pc' = "exited"
          /\ UNCHANGED messages
       \/ /\ outcome' = [outcome EXCEPT !.messages = "data"]
          /\ messages' \in MessageLists
          /\ pc' = "session"
          /\ UNCHANGED exitCode
    /\ UNCHANGED <<sessionId, servers, renderers, projectPath, partsMap, rootNode,
                   selectedPart, lastEvent, processCwd, fnIn, fnOut>>

\* await client.session.messages(...), then exit 1 or go on
FetchMessages ==
    /\ pc = "messages"
    /\ calls' = [calls EXCEPT !.messages = @ + 1]
    /\ \/ /\ outcome' = [outcome EXCEPT !.messages = "nodata"]
          /\ exitCode' = <<1>>
          /\ pc' = "exited"
          /\ UNCHANGED messages
       \/ /\ outcome' = [outcome EXCEPT !.messages = "data"]
          /\ messages' \in MessageLists
          /\ pc' = "session"
          /\ UNCHANGED exitCode
    /\ UNCHANGED <<sessionId, servers, renderers, projectPath, partsMap, rootNode,
                   selectedPart, lastEvent, processCwd, fnIn, fnOut>>

\* sessionDirectory without the ?? "": a missing directory stays undefined
sessionDirectoryUndefined(result, directory) ==
    IF result = "directory" THEN directory
    ELSE IF result = "nodirectory" THEN "undefined"
    ELSE ""

\* sessionResult?.data?.directory ?? "", sessionResult being null after a
\* rejection
sessionDirectory(result, directory) ==
    IF result = "directory" THEN directory ELSE ""

\* await client.session.get(...).catch(() => null), the tree and the parts
\* map, createCliRenderer and the first render of App
LoadSession ==
    /\ pc = "session"
    /\ calls' = [calls EXCEPT !.get = @ + 1]
    /\ \E result \in {"rejected", "nodata", "nodirectory", "directory"} :
          /\ outcome' = [outcome EXCEPT !.get = result]
          /\ \E directory \in Directories :
                projectPath' = sessionDirectory(result, directory)
    /\ partsMap' = buildPartsMap(messages)
    /\ rootNode' = buildRootNode(messages, projectPath', processCwd)
    /\ renderers' = createRenderer(renderers, "treemap")
    /\ selectedPart' = <<>>
    /\ pc' = "view"
    /\ UNCHANGED <<sessionId, servers, exitCode, messages, lastEvent, processCwd,
                   fnIn, fnOut>>

\* the nodes of the tree, each by its place: <<>> the root, <<i>> the node of
\* message i, <<i, j>> the node of its part j (from 1)
NodePlaces ==
    {<<>>} \cup {<<i>> : i \in 1..Len(messages)}
        \cup UNION {{<<i, j>> : j \in 1..Len(messages[i].parts)} : i \in 1..Len(messages)}

nodeAt(place) ==
    IF place = <<>> THEN rootNode
    ELSE IF Len(place) = 1 THEN rootNode.children[place[1]]
    ELSE rootNode.children[place[1]].children[place[2]]

\* App's handleLeafSelect(node): the new selectedPart
handleLeafSelect(node) ==
    IF "partKey" \in DOMAIN node /\ node.partKey # ""
    THEN IF node.partKey \in DOMAIN partsMap
         THEN <<partsMap[node.partKey]>>
         ELSE selectedPart
    ELSE selectedPart

\* Treemap calls onLeafSelect with a node of the tree; Treemap is mounted
\* while no part is selected
LeafSelect ==
    /\ pc = "view"
    /\ selectedPart = <<>>
    /\ \E place \in NodePlaces :
          /\ selectedPart' = handleLeafSelect(nodeAt(place))
          /\ lastEvent' = [kind |-> "leafSelect", place |-> place]
    /\ UNCHANGED <<pc, sessionId, servers, renderers, exitCode, calls, outcome, messages,
                   projectPath, partsMap, rootNode, processCwd, fnIn, fnOut>>

\* ViewEscape dropping the parts map with the selection
ViewEscapeClearsMap ==
    /\ pc = "view"
    /\ selectedPart' = <<>>
    /\ partsMap' = IF selectedPart # <<>> THEN <<>> ELSE partsMap
    /\ lastEvent' = [kind |-> "escape", view |-> "view"]
    /\ UNCHANGED <<pc, sessionId, servers, renderers, exitCode, calls, outcome, messages,
                   projectPath, rootNode, processCwd, fnIn, fnOut>>

\* App's useKeyboard: escape
ViewEscape ==
    /\ pc = "view"
    /\ selectedPart' = IF selectedPart # <<>> THEN <<>> ELSE selectedPart
    /\ lastEvent' = [kind |-> "escape", view |-> "view"]
    /\ UNCHANGED <<pc, sessionId, servers, renderers, exitCode, calls, outcome, messages,
                   projectPath, partsMap, rootNode, processCwd, fnIn, fnOut>>

\* what App renders
appView == IF selectedPart # <<>> THEN "detail" ELSE "treemap"

Next ==
    \/ CreateOpencode
    \/ ListSessions
    \/ PickerEscape
    \/ PickerSelect
    \/ CtrlC
    \/ FetchMessages
    \/ LoadSession
    \/ LeafSelect
    \/ ViewEscape

Spec == Init /\ [][Next]_vars

-----------------------------------------------------------------------------
(* The pure functions, each applied to one argument drawn from a bounded set *)

CharWindow == 60

SizeAnchors == {1000, 1500, 10000, 999950, 1000000, 2300000}

CharSizes ==
    0..CharWindow
        \cup UNION {a - CharWindow .. a + CharWindow : a \in SizeAnchors}
        \cup {1050 + 100 * i : i \in 0..CharWindow}
        \cup {1050000 + 100000 * i : i \in 0..(CharWindow \div 4)}

LabelRoots == {"/proj", "/proj/", ""}

FnInputs ==
    {[fn |-> f, part |-> p] : f \in {"getPartSize", "getPartSize_2"}, p \in Parts}
        \cup {[fn |-> "getPartLabel", part |-> p, projectPath |-> r, cwd |-> c] :
                p \in Parts, r \in LabelRoots, c \in Cwds}
        \cup {[fn |-> "formatCharSize", chars |-> n] : n \in CharSizes}

FnInit ==
    /\ pc = "function"
    /\ sessionId = ""
    /\ processCwd = "/proj"
    /\ servers = <<>>
    /\ renderers = <<>>
    /\ exitCode = <<>>
    /\ calls = NoCalls
    /\ outcome = NoOutcome
    /\ messages = <<>>
    /\ projectPath = ""
    /\ partsMap = <<>>
    /\ rootNode = <<>>
    /\ selectedPart = <<>>
    /\ lastEvent = [kind |-> "none"]
    /\ fnIn \in FnInputs
    /\ fnOut = <<>>

machineVars ==
    <<pc, sessionId, servers, renderers, exitCode, calls, outcome, messages,
      projectPath, partsMap, rootNode, selectedPart, lastEvent, processCwd>>

ApplyGetPartSize ==
    /\ fnOut = <<>> /\ fnIn.fn = "getPartSize"
    /\ fnOut' = <<getPartSize(fnIn.part)>>
    /\ UNCHANGED <<machineVars, fnIn>>

ApplyGetPartSize_2 ==
    /\ fnOut = <<>> /\ fnIn.fn = "getPartSize_2"
    /\ fnOut' = <<getPartSize_2(fnIn.part)>>
    /\ UNCHANGED <<machineVars, fnIn>>

ApplyGetPartLabel ==
    /\ fnOut = <<>> /\ fnIn.fn = "getPartLabel"
    /\ fnOut' = <<getPartLabel(fnIn.part, fnIn.projectPath, fnIn.cwd)>>
    /\ UNCHANGED <<machineVars, fnIn>>

ApplyFormatCharSize ==
    /\ fnOut = <<>> /\ fnIn.fn = "formatCharSize"
    /\ fnOut' = <<formatCharSize(fnIn.chars)>>
    /\ UNCHANGED <<machineVars, fnIn>>

FnNext ==
    \/ ApplyGetPartSize
    \/ ApplyGetPartSize_2
    \/ ApplyGetPartLabel
    \/ ApplyFormatCharSize

FnSpec == FnInit /\ [][FnNext]_vars

\* the function f has been applied: fnOut[1] is f(fnIn)
Applied(f) == fnOut # <<>> /\ fnIn.fn = f

-----------------------------------------------------------------------------
(* C1, C7, C8, C9: the pure functions *)

sizeFns == {"getPartSize", "getPartSize_2"}

completedTool(part) == part.type = "tool" /\ part.state.status = "completed"

\* C1: for every tool part whose state is completed, getPartSize is the
\* length of the serialized input plus the length of the output when the
\* state's time carries no compacted mark, and the length of the serialized
\* input alone when it does.
C1_CompletedToolSize ==
    (fnOut # <<>> /\ fnIn.fn \in sizeFns /\ completedTool(fnIn.part)) =>
        LET state == fnIn.part.state
        IN  fnOut[1] = IF "compacted" \in DOMAIN state.time
                       THEN Len(stringify(state.input))
                       ELSE Len(stringify(state.input)) + Len(state.output)

\* a compacted completed tool call with an output has been sized
C1_Witness ==
    /\ Applied("getPartSize") /\ completedTool(fnIn.part)
    /\ "compacted" \in DOMAIN fnIn.part.state.time
    /\ fnIn.part.state.output # ""
    /\ fnOut[1] = Len(stringify(fnIn.part.state.input))

isDigit(c) == \E d \in 0..9 : ToString(d) = c

digitValue(c) == CHOOSE d \in 0..9 : ToString(d) = c

allDigits(s) == s # "" /\ \A i \in 1..Len(s) : isDigit(charAt(s, i))

RECURSIVE parseDigits(_)
parseDigits(s) ==
    IF s = "" THEN 0
    ELSE 10 * parseDigits(SubSeq(s, 1, Len(s) - 1)) + digitValue(charAt(s, Len(s)))

\* num reads <digits>.<digit>, without a needless leading zero
oneDecimal(num) ==
    /\ Len(num) >= 3
    /\ charAt(num, Len(num) - 1) = "."
    /\ allDigits(SubSeq(num, 1, Len(num) - 2))
    /\ isDigit(charAt(num, Len(num)))
    /\ (Len(num) > 3 => charAt(num, 1) # "0")

\* the value of such a num, in tenths
tenthsOf(num) ==
    10 * parseDigits(SubSeq(num, 1, Len(num) - 2)) + digitValue(charAt(num, Len(num)))

\* out without its last Len(unit) characters
beforeUnit(out, unit) == SubSeq(out, 1, Len(out) - Len(unit))

formatExamples(n, out) ==
    /\ (n = 999 => out = "999 chars")
    /\ (n = 1500 => out = "1.5K chars")
    /\ (n = 2300000 => out = "2.3M chars")

\* C7 as claimed: "<n> chars" below 1,000; a one-decimal value below 1000
\* and "K chars" from 1,000 to below 1,000,000; a one-decimal value and
\* "M chars" from 1,000,000 on.
C7_Original ==
    Applied("formatCharSize") =>
        LET n == fnIn.chars
            out == fnOut[1]
        IN  /\ (n < 1000 => out = ToString(n) \o " chars")
            /\ (n >= 1000 /\ n < 1000000 =>
                    /\ endsWith(out, "K chars")
                    /\ oneDecimal(beforeUnit(out, "K chars"))
                    /\ tenthsOf(beforeUnit(out, "K chars")) < 10000)
            /\ (n >= 1000000 =>
                    /\ endsWith(out, "M chars")
                    /\ oneDecimal(beforeUnit(out, "M chars")))
            /\ formatExamples(n, out)

\* C7, amended: "<n> chars" below 1,000; from 1,000 to below 1,000,000 the
\* one-decimal value nearest to n / 1000 and "K chars", a value below 1000
\* exactly when n < 999,950 and "1000.0K chars" from 999,950 on; from
\* 1,000,000 on the one-decimal value nearest to n / 1,000,000 and "M chars".
C7_FormatCharSize ==
    Applied("formatCharSize") =>
        LET n == fnIn.chars
            out == fnOut[1]
            k == beforeUnit(out, "K chars")
            m == beforeUnit(out, "M chars")
        IN  /\ (n < 1000 => out = ToString(n) \o " chars")
            /\ (n >= 1000 /\ n < 1000000 =>
                    /\ endsWith(out, "K chars")
                    /\ oneDecimal(k)
                    /\ 100 * tenthsOf(k) - n \in -50..50
                    /\ (tenthsOf(k) < 10000 <=> n < 999950)
                    /\ (n >= 999950 => out = "1000.0K chars"))
            /\ (n >= 1000000 =>
                    /\ endsWith(out, "M chars")
                    /\ oneDecimal(m)
                    /\ 100000 * tenthsOf(m) - n \in -50000..50000)
            /\ formatExamples(n, out)

\* a size just below 1,000,000 has been formatted, to 1000.0K
C7_Witness ==
    Applied("formatCharSize") /\ fnIn.chars = 999999 /\ fnOut[1] = "1000.0K chars"

controlOrUnknown(part) ==
    part.type \notin {"text", "reasoning", "tool", "file", "subtask"}

\* C8 as claimed: every getPartSize of the file returns 0 for a part of a
\* control type and for a part of an unrecognized type.
C8_Original ==
    (fnOut # <<>> /\ fnIn.fn \in sizeFns /\ controlOrUnknown(fnIn.part)) => fnOut[1] = 0

\* C8, amended: the first getPartSize returns 0 for a part of a control type
\* and for a part of an unrecognized type; the second returns 0 for a part of
\* an unrecognized type and, for a part of a control type, the length of the
\* part's serialization, which is not 0.
C8_ControlPartSize ==
    (fnOut # <<>> /\ fnIn.fn \in sizeFns /\ controlOrUnknown(fnIn.part)) =>
        IF fnIn.fn = "getPartSize_2" /\ fnIn.part.type \in ControlTypes
        THEN fnOut[1] = Len(stringifyPart(fnIn.part)) /\ fnOut[1] > 0
        ELSE fnOut[1] = 0

\* the first getPartSize has sized a control part
C8_Witness ==
    Applied("getPartSize") /\ fnIn.part.type = "step-finish" /\ fnOut[1] = 0

\* a file part, or a read or write tool part whose input has a filePath
fileLike(part) ==
    \/ part.type = "file"
    \/ /\ part.type = "tool"
       /\ part.tool \in {"read", "write"}
       /\ hasKey(part.state.input, "filePath")

\* the path a file-like part names
filePathOf(part) ==
    IF part.type = "tool" THEN getKey(part.state.input, "filePath")
    ELSE IF "source" \in DOMAIN part THEN part.source.path
    ELSE IF "filename" \in DOMAIN part /\ part.filename # "" THEN part.filename
    ELSE part.url

\* what stands before the path in the label of a file-like part
labelPrefix(part) ==
    IF part.type = "tool" THEN "tool:" \o part.tool \o ":" ELSE "file:"

directorySegments(p) == normalizeSegments(split(p, ""), <<>>)

\* the file lies in the directory root or below it
insideRoot(root, file) ==
    LET r == directorySegments(root)
        f == directorySegments(file)
    IN  Len(r) <= Len(f) /\ SubSeq(f, 1, Len(r)) = r

\* the path of such a file from root
pathFromRoot(root, file) ==
    LET r == directorySegments(root)
        f == directorySegments(file)
    IN  join(SubSeq(f, Len(r) + 1, Len(f)))

\* C9: for a file-like part that names an absolute path, under an absolute
\* project root, the label is the part's prefix and then the path from the
\* root when the file lies inside the root, and the unchanged absolute path
\* when it lies outside (the relative path would begin with "..").
C9_RelativeLabel ==
    (/\ Applied("getPartLabel") /\ fileLike(fnIn.part)
     /\ startsWith(fnIn.projectPath, "/")
     /\ startsWith(filePathOf(fnIn.part), "/")) =>
        LET file == filePathOf(fnIn.part)
            prefix == labelPrefix(fnIn.part)
        IN  fnOut[1] = prefix \o (IF insideRoot(fnIn.projectPath, file)
                                  THEN pathFromRoot(fnIn.projectPath, file)
                                  ELSE file)

-----------------------------------------------------------------------------
(* C2 .. C6, C10: the program *)

\* main has built the tree and the parts map
built == outcome.get # ""

RECURSIVE sumOfValues(_)
sumOfValues(nodes) ==
    IF nodes = <<>> THEN 0 ELSE Head(nodes).value + sumOfValues(Tail(nodes))

RECURSIVE sumOfSizes(_)
sumOfSizes(parts) ==
    IF parts = <<>> THEN 0 ELSE getPartSize(Head(parts)) + sumOfSizes(Tail(parts))

LeafPlaces == {place \in NodePlaces : Len(place) = 2}

partAt(place) == messages[place[1]].parts[place[2]]

\* C2: under every message's node the values of the leaves add up to the
\* sizes of the message's parts: one leaf per part, in order, each with the
\* size of its part.
C2_MessageMass ==
    built =>
        \A i \in 1..Len(messages) :
            LET node == rootNode.children[i]
                parts == messages[i].parts
            IN  /\ sumOfValues(node.children) = sumOfSizes(parts)
                /\ Len(node.children) = Len(parts)
                /\ \A j \in 1..Len(parts) : node.children[j].value = getPartSize(parts[j])

\* a tree with a message of several parts of some size
C2_Witness ==
    /\ built
    /\ \E i \in 1..Len(messages) :
          /\ Len(messages[i].parts) >= 2
          /\ sumOfValues(rootNode.children[i].children) > 0
          /\ sumOfValues(rootNode.children[i].children) = sumOfSizes(messages[i].parts)

\* C3: no two leaves of the tree carry one key, the parts map holds exactly
\* the leaves' keys and maps each to the part its leaf was built from, and
\* selecting a leaf selects that part, also when another leaf of the message
\* has the same label.
C3_LeafKeys ==
    built =>
        /\ \A p, q \in LeafPlaces : nodeAt(p).partKey = nodeAt(q).partKey => p = q
        /\ DOMAIN partsMap = {nodeAt(p).partKey : p \in LeafPlaces}
        /\ \A p \in LeafPlaces : partsMap[nodeAt(p).partKey] = partAt(p)
        /\ (lastEvent.kind = "leafSelect" /\ lastEvent.place \in LeafPlaces =>
                selectedPart = <<partAt(lastEvent.place)>>)

\* the second of two unlike parts with one label has been selected
C3_Witness ==
    /\ built
    /\ lastEvent.kind = "leafSelect"
    /\ Len(lastEvent.place) = 2
    /\ lastEvent.place[2] = 2
    /\ LET i == lastEvent.place[1]
       IN  /\ nodeAt(<<i, 1>>).name = nodeAt(<<i, 2>>).name
           /\ nodeAt(<<i, 1>>).partKey # nodeAt(<<i, 2>>).partKey
           /\ messages[i].parts[1] # messages[i].parts[2]
           /\ selectedPart = <<messages[i].parts[2]>>

\* C4: the root is named "session" and has value 0; its children are one
\* container per message, in order, the one of message i (from 0) with role
\* r named "r:i", with " (last)" after it exactly for the final message; the
\* children of a message's node are its parts as leaves, in order.
C4_TreeShape ==
    built =>
        /\ rootNode.name = "session"
        /\ rootNode.value = 0
        /\ Len(rootNode.children) = Len(messages)
        /\ \A i \in 1..Len(messages) :
              LET node == rootNode.children[i]
                  base == messages[i].info.role \o ":" \o ToString(i - 1)
              IN  /\ node.name \in {base, base \o " (last)"}
                  /\ (node.name = base \o " (last)" <=> i = Len(messages))
                  /\ "children" \in DOMAIN node
                  /\ "partKey" \notin DOMAIN node
                  /\ Len(node.children) = Len(messages[i].parts)
                  /\ \A j \in 1..Len(messages[i].parts) :
                        LET leaf == node.children[j]
                            part == messages[i].parts[j]
                        IN  /\ "children" \notin DOMAIN leaf
                            /\ leaf.name = getPartLabel(part, projectPath, processCwd)
                            /\ leaf.value = getPartSize(part)
                            /\ partsMap[leaf.partKey] = part

\* a tree of two messages, the last one marked
C4_Witness ==
    /\ built
    /\ Len(messages) = 2
    /\ rootNode.children[1].name = "user:0"
    /\ rootNode.children[2].name = "assistant:1 (last)"
    /\ Len(rootNode.children[2].children) = 3

\* C5: a step of the session view (a leaf selection, an escape) leaves the
\* tree and the parts map as they are; a leaf selection shows the detail view
\* of the leaf's part, and an escape while a part is selected shows the
\* treemap again.
C5_ViewFrame ==
    [][(pc = "view" /\ pc' = "view") =>
          /\ rootNode' = rootNode
          /\ partsMap' = partsMap
          /\ messages' = messages
          /\ (lastEvent'.kind = "leafSelect" /\ lastEvent'.place \in LeafPlaces =>
                  /\ selectedPart' = <<partAt(lastEvent'.place)>>
                  /\ appView' = "detail")
          /\ (lastEvent'.kind = "escape" /\ selectedPart # <<>> =>
                  /\ selectedPart' = <<>>
                  /\ appView' = "treemap")]_vars

\* the detail view of a selected leaf's part is shown
C5_Witness ==
    /\ pc = "view"
    /\ lastEvent.kind = "leafSelect"
    /\ appView = "detail"
    /\ partsMap # <<>>

treemapCreated == \E i \in 1..Len(renderers) : renderers[i].kind = "treemap"

\* C6: when the message fetch returns no data, and when the session list is
\* missing or empty, the process has exited with code 1 and has created no
\* treemap view; it has exited with code 0 only after an escape in the
\* session picker.
C6_ExitCodes ==
    /\ (outcome.messages = "nodata" =>
            pc = "exited" /\ exitCode = <<1>> /\ ~treemapCreated)
    /\ (outcome.list \in {"nodata", "empty"} =>
            pc = "exited" /\ exitCode = <<1>> /\ ~treemapCreated)
    /\ (exitCode = <<0>> =>
            pc = "exited" /\ lastEvent = [kind |-> "escape", view |-> "picker"])

\* the message fetch of a session picked in the picker returned no data
C6_Witness ==
    /\ outcome.messages = "nodata"
    /\ outcome.list = "sessions"
    /\ exitCode = <<1>>

\* C10: when the session fetch is rejected, returns no data or returns no
\* directory, the project root is the empty string, the tree is built from
\* the fetched messages and the treemap view is created, the process has not
\* exited, and the session was fetched once.
C10_SessionFallback ==
    /\ calls.get <= 1
    /\ (outcome.get \in {"rejected", "nodata", "nodirectory"} =>
            /\ projectPath = ""
            /\ pc \in {"view", "destroyed"}
            /\ exitCode = <<>>
            /\ calls.get = 1
            /\ renderers[Len(renderers)].kind = "treemap"
            /\ Len(rootNode.children) = Len(messages)
            /\ \A p \in LeafPlaces : nodeAt(p).value = getPartSize(partAt(p)))

\* the view of a session whose fetch was rejected, with a file in its tree
C10_Witness ==
    /\ outcome.get = "rejected"
    /\ pc = "view"
    /\ projectPath = ""
    /\ \E p \in LeafPlaces : partAt(p).type = "file"

-----------------------------------------------------------------------------
(* C11, C12 *)

\* C11: in a built tree a node with a non-empty children list has value 0
\* and a node without a children list is a leaf with a key; the node of a
\* message without parts has value 0 and an empty children list, carries no
\* key, and selecting it selects no part.
C11_Containers ==
    built =>
        /\ \A place \in NodePlaces :
              LET node == nodeAt(place)
              IN  /\ ("children" \in DOMAIN node /\ node.children # <<>> =>
                          node.value = 0 /\ Len(place) < 2)
                  /\ ("children" \notin DOMAIN node =>
                          /\ Len(place) = 2
                          /\ "partKey" \in DOMAIN node
                          /\ node.partKey \in DOMAIN partsMap)
        /\ \A i \in 1..Len(messages) :
              messages[i].parts = <<>> =>
                  LET node == rootNode.children[i]
                  IN  /\ node.value = 0
                      /\ "children" \in DOMAIN node
                      /\ node.children = <<>>
                      /\ "partKey" \notin DOMAIN node
                      /\ node.name \notin DOMAIN partsMap
                      /\ (lastEvent = [kind |-> "leafSelect", place |-> <<i>>] =>
                              selectedPart = <<>>)

\* the node of a message without parts, beside a message with parts, has
\* been handed to handleLeafSelect
C11_Witness ==
    /\ built
    /\ pc = "view"
    /\ lastEvent.kind = "leafSelect"
    /\ Len(lastEvent.place) = 1
    /\ messages[lastEvent.place[1]].parts = <<>>
    /\ selectedPart = <<>>
    /\ \E i \in 1..Len(messages) : Len(rootNode.children[i].children) >= 2

aliveRenderers == {i \in 1..Len(renderers) : renderers[i].alive}

openServers == {i \in 1..Len(servers) : servers[i] = "open"}

\* C12: at no time are two renderers alive or two servers open; after an
\* escape in the session picker (the exit with code 0), after a session was
\* picked and before its load starts, and after a Ctrl-C, no renderer is
\* alive and no server is open.
C12_Teardown ==
    /\ Cardinality(aliveRenderers) <= 1
    /\ Cardinality(openServers) <= 1
    /\ (pc \in {"main", "destroyed"} \/ exitCode = <<0>> =>
            aliveRenderers = {} /\ openServers = {})
    /\ (\/ lastEvent.kind \in {"select", "ctrlC"}
        \/ lastEvent = [kind |-> "escape", view |-> "picker"] =>
            ~renderers[1].alive /\ servers[1] = "closed")

\* the session picked in the picker is shown: the picker's renderer and
\* server are gone, the second main's are alive
C12_Witness ==
    /\ pc = "view"
    /\ lastEvent.kind = "select"
    /\ servers = <<"closed", "open">>
    /\ Len(renderers) = 2
    /\ ~renderers[1].alive
    /\ renderers[2].alive

====
